---- MODULE Spec2Model ----
(***************************************************************************)
(* Model of app/src/main/cpp/native-lib.cpp: the JNI entry points          *)
(* checkCredentials, getFlagLength, decryptFlagIntoBuffer, wipeFlagBuffer   *)
(* and the helper secure_memzero.                                           *)
(*                                                                         *)
(* Every native entry point is one action.  Its inputs (the caller's Java  *)
(* arrays and length arguments) and the runtime's choices (whether malloc,  *)
(* mlock and GetCharArrayElements succeed, whether the runtime hands out a  *)
(* direct pointer or a copy, what uninitialised or out-of-bounds memory     *)
(* holds) are drawn from small sets.  The body of each entry point is an    *)
(* operator that follows the C++ statement by statement and returns the     *)
(* caller-visible arrays, the return value and the sequence of memory       *)
(* events (malloc, mlock, zero, munlock, free, get, release) it performed.  *)
(***************************************************************************)
EXTENDS Integers, Sequences, FiniteSets, TLC

VARIABLES phase, op, juser, jpass, jbuffer, args, env, result

vars == <<phase, op, juser, jpass, jbuffer, args, env, result>>

(***************************************************************************)
(* Bounds of the model.                                                    *)
(***************************************************************************)
\* longest juser / jpass array the caller passes
MaxArrLen == 6
\* largest userLen / passLen argument the caller passes
MaxLenArg == 6
\* longest destination array is FLAG_LEN + MaxExtra elements
MaxExtra == 2

(***************************************************************************)
(* Machine arithmetic.                                                     *)
(***************************************************************************)
RECURSIVE XorBits(_, _, _)
XorBits(a, b, n) ==
    IF n = 0 THEN 0
    ELSE (((a % 2) + (b % 2)) % 2) + (2 * XorBits(a \div 2, b \div 2, n - 1))

\* unsigned char ^ unsigned char
Xor8(a, b) == XorBits(a, b, 8)

\* (unsigned char) of a jchar: the low byte
ToUnsignedChar(c) == c % 256

\* storing an int 0..255 into a plain char: negative when char is signed
ToChar(v, charSigned) == IF charSigned /\ v >= 128 THEN v - 256 ELSE v

\* (jchar) of a char: conversion to unsigned 16 bit
ToJchar(c) == c % 65536

\* the bytes of a jchar array, low byte first
JcharBytes(elems) ==
    [k \in 1..(2 * Len(elems)) |->
        IF (k % 2) = 1 THEN (elems[(k + 1) \div 2]) % 256
                     ELSE (elems[k \div 2]) \div 256]

BytesJchars(bytes) ==
    [i \in 1..(Len(bytes) \div 2) |-> bytes[(2 * i) - 1] + (256 * bytes[2 * i])]

AllZero(mem) == \A i \in 1..Len(mem) : mem[i] = 0

(***************************************************************************)
(* secure_memzero(ptr, len) on the region mem that ptr points to: the      *)
(* bytes of mem after the call.  Bytes past the end of mem are outside the *)
(* region; MemzeroOverrun says the call wrote there.  Every call site      *)
(* passes a non-null ptr, so the !ptr test never decides.                   *)
(***************************************************************************)
secure_memzero(mem, len) ==
    IF len = 0 THEN mem
    ELSE [i \in 1..Len(mem) |-> IF i <= len THEN 0 ELSE mem[i]]

MemzeroOverrun(mem, len) == len > Len(mem)

\* secure_memzero(chars, n * sizeof(jchar)) on a jchar region
ZeroJchars(elems, n) == BytesJchars(secure_memzero(JcharBytes(elems), n * 2))

(***************************************************************************)
(* Stored data.                                                            *)
(***************************************************************************)
ENC_USER == <<59, 62, 55, 51, 52>>
ENC_PASS == <<59, 62, 55, 51, 52>>
XOR_KEY == 90

ENC_FLAG == <<28, 22, 27, 29, 33, 9, 9, 9, 47, 42, 63, 40, 5,
              9, 63, 57, 40, 63, 46, 5, 28, 54, 59, 61, 39>>
FLAG_LEN == Len(ENC_FLAG)
FLAG_KEY == 90

\* size of the region that is page-locked
LOCK_SIZE == 1024

(***************************************************************************)
(* Runtime and allocator.                                                  *)
(***************************************************************************)
\* a Java array reference: null, or an array with its elements
NullArr == [null |-> TRUE, elems |-> <<>>]
Arr(s) == [null |-> FALSE, elems |-> s]

\* GetCharArrayElements: "null" (failure), or the elements, through a
\* direct pointer into the array or through a copy
GetCharArrayElements(arr, mode) == arr.elems

\* ReleaseCharArrayElements(arr, elems, relMode): the caller-visible array
\* afterwards.  Through a direct pointer the native writes are already in
\* the array; a copy is written back with mode 0 and dropped with JNI_ABORT.
JNI_ABORT == 2
ReleaseCharArrayElements(arr, elems, relMode, mode) ==
    IF mode = "direct" THEN Arr(elems)
    ELSE IF relMode = 0 THEN Arr(elems)
    ELSE arr

\* malloc(n) for a jint n converted to size_t: a negative n is a request of
\* at least 2^31 bytes, which no allocator satisfies
MallocSucceeds(n, ok) == n >= 0 /\ ok

\* the indeterminate contents of a fresh allocation of n bytes
Uninit(n, garbage) == [i \in 1..n |-> garbage]

\* byte values an uninitialised allocation may hold
Garbage == {0, 165}

\* the 1024-byte region of malloc(1024), per value of its indeterminate
\* bytes: is it all zero as allocated, and after secure_memzero(mem, 1024)
LockedFreshIsZero ==
    [g \in Garbage |-> AllZero(Uninit(LOCK_SIZE, g))]

LockedWipedIsZero ==
    [g \in Garbage |->
        AllZero(secure_memzero(Uninit(LOCK_SIZE, g), LOCK_SIZE))]

\* one memory event of a call
Ev(e, o, z) == [ev |-> e, obj |-> o, zeroed |-> z]

(***************************************************************************)
(* memcmp(a, b, n): byte by byte, stopping at the first difference.        *)
(***************************************************************************)
RECURSIVE MemcmpExamined(_, _, _, _)
\* number of bytes memcmp has looked at when it returns
MemcmpExamined(a, b, n, i) ==
    IF i > n THEN n
    ELSE IF a[i] # b[i] THEN i
    ELSE MemcmpExamined(a, b, n, i + 1)

memcmp(a, b, n) ==
    LET k == MemcmpExamined(a, b, n, 1)
    IN  IF n = 0 \/ a[k] = b[k] THEN 0
        ELSE IF a[k] < b[k] THEN 0 - 1 ELSE 1

(***************************************************************************)
(* checkCredentials                                                        *)
(***************************************************************************)
\* STEP 1: malloc(1024) and, when it succeeded, mlock
ccLockMemory(e) ==
    IF e.lockedOk
    THEN <<Ev("malloc", "locked_mem", FALSE)>>
         \o (IF e.mlockOk THEN <<Ev("mlock", "locked_mem", FALSE)>> ELSE <<>>)
    ELSE <<>>

\* the same cleanup with the free forgotten
ccWipeAndFreeLocked_Leak(e, garbage) ==
    IF e.lockedOk
    THEN <<Ev("zero", "locked_mem", LockedWipedIsZero[garbage])>>
    ELSE <<>>

\* if (locked_mem) { secure_memzero(locked_mem, 1024); free(locked_mem); }
ccWipeAndFreeLocked(e, garbage) ==
    IF e.lockedOk
    THEN <<Ev("zero", "locked_mem", LockedWipedIsZero[garbage]),
           Ev("free", "locked_mem", LockedWipedIsZero[garbage])>>
    ELSE <<>>

\* STEP 2: the two GetCharArrayElements calls
ccGetArrays(e) ==
    (IF e.modeUser # "null" THEN <<Ev("get", "userChars", FALSE)>> ELSE <<>>)
    \o (IF e.modePass # "null" THEN <<Ev("get", "passChars", FALSE)>> ELSE <<>>)

\* the return of checkCredentials: caller-visible arrays, value, events
ccReturn(u, p, m, t, cmp, n, rd, wr, how) ==
    [juser |-> u, jpass |-> p, match |-> m, trace |-> t, compared |-> cmp,
     cmpCount |-> n, oobRead |-> rd, oobWrite |-> wr, outcome |-> how]

\* STEP 2, failure branch: if (!userChars || !passChars) { ... return JNI_FALSE; }
ccArrayAccessFailed(u, p, e, garbage) ==
    LET userChars == GetCharArrayElements(u, e.modeUser)
        passChars == GetCharArrayElements(p, e.modePass)
        relUser == e.modeUser # "null"
        relPass == e.modePass # "null"
    IN  ccReturn(
            IF relUser
            THEN ReleaseCharArrayElements(u, userChars, JNI_ABORT, e.modeUser)
            ELSE u,
            IF relPass
            THEN ReleaseCharArrayElements(p, passChars, JNI_ABORT, e.modePass)
            ELSE p,
            FALSE,
            ccLockMemory(e) \o ccGetArrays(e)
              \o (IF relUser THEN <<Ev("release", "userChars", FALSE)>> ELSE <<>>)
              \o (IF relPass THEN <<Ev("release", "passChars", FALSE)>> ELSE <<>>)
              \o ccWipeAndFreeLocked(e, garbage),
            FALSE, 0, FALSE, FALSE, "returned")

\* STEP 3: the two malloc calls of the conversion buffers
ccAllocBytes(userOk, passOk) ==
    (IF userOk THEN <<Ev("malloc", "userBytes", FALSE)>> ELSE <<>>)
    \o (IF passOk THEN <<Ev("malloc", "passBytes", FALSE)>> ELSE <<>>)

\* STEP 3, failure branch: if (!userBytes || !passBytes) { ... return JNI_FALSE; }
ccAllocFailed(u, p, userLen, passLen, e, garbage) ==
    LET userOk == MallocSucceeds(userLen, e.userBytesOk)
        passOk == MallocSucceeds(passLen, e.passBytesOk)
        userChars == GetCharArrayElements(u, e.modeUser)
        passChars == GetCharArrayElements(p, e.modePass)
    IN  ccReturn(
            ReleaseCharArrayElements(u, userChars, JNI_ABORT, e.modeUser),
            ReleaseCharArrayElements(p, passChars, JNI_ABORT, e.modePass),
            FALSE,
            ccLockMemory(e) \o ccGetArrays(e) \o ccAllocBytes(userOk, passOk)
              \o (IF userOk
                  THEN <<Ev("free", "userBytes", AllZero(Uninit(userLen, garbage)))>>
                  ELSE <<>>)
              \o (IF passOk
                  THEN <<Ev("free", "passBytes", AllZero(Uninit(passLen, garbage)))>>
                  ELSE <<>>)
              \o <<Ev("release", "userChars", FALSE),
                   Ev("release", "passChars", FALSE)>>
              \o ccWipeAndFreeLocked(e, garbage),
            FALSE, 0, FALSE, FALSE, "returned")

\* for (i < len) bytes[i] = (unsigned char) chars[i]; an index past the end
\* of chars reads whatever lies behind the array
ccConvert(chars, len, oobChar) ==
    [i \in 1..len |->
        ToUnsignedChar(IF i <= Len(chars) THEN chars[i] ELSE oobChar)]

\* STEP 4: decrypted[i] = ENC[i] ^ XOR_KEY
ccDecrypt(enc) == [i \in 1..Len(enc) |-> Xor8(enc[i], XOR_KEY)]

\* STEP 5: the length test
ccLengthsMatch(userLen, passLen) ==
    userLen = Len(ENC_USER) /\ passLen = Len(ENC_PASS)

\* STEP 5: memcmp(user) == 0 && memcmp(pass) == 0, the second operand
\* evaluated only when the first holds
ccCompare(userBytes, passBytes, decryptedUser, decryptedPass, userLen, passLen) ==
    LET userEq == memcmp(userBytes, decryptedUser, userLen) = 0
    IN  [match |-> userEq /\ memcmp(passBytes, decryptedPass, passLen) = 0,
         examined |->
            MemcmpExamined(userBytes, decryptedUser, userLen, 1)
            + (IF userEq
               THEN MemcmpExamined(passBytes, decryptedPass, passLen, 1)
               ELSE 0)]

\* STEP 6: cleanup and return
ccCleanup(u, p, userLen, passLen, e, garbage, userBytes, passBytes, decryptedUser, decryptedPass, match, compared, cmpCount, oob) ==
    LET userChars == GetCharArrayElements(u, e.modeUser)
        passChars == GetCharArrayElements(p, e.modePass)
        du == secure_memzero(decryptedUser, Len(ENC_USER))
        dp == secure_memzero(decryptedPass, Len(ENC_PASS))
        ub == secure_memzero(userBytes, userLen)
        pb == secure_memzero(passBytes, passLen)
        uc == ZeroJchars(userChars, userLen)
        pc == ZeroJchars(passChars, passLen)
    IN  ccReturn(
            ReleaseCharArrayElements(u, uc, JNI_ABORT, e.modeUser),
            ReleaseCharArrayElements(p, pc, JNI_ABORT, e.modePass),
            match,
            ccLockMemory(e) \o ccGetArrays(e) \o ccAllocBytes(TRUE, TRUE)
              \o <<Ev("zero", "decryptedUser", AllZero(du)),
                   Ev("zero", "decryptedPass", AllZero(dp)),
                   Ev("zero", "userBytes", AllZero(ub)),
                   Ev("zero", "passBytes", AllZero(pb)),
                   Ev("free", "userBytes", AllZero(ub)),
                   Ev("free", "passBytes", AllZero(pb)),
                   Ev("zero", "userChars", AllZero(uc)),
                   Ev("zero", "passChars", AllZero(pc)),
                   Ev("release", "userChars", AllZero(uc)),
                   Ev("release", "passChars", AllZero(pc))>>
              \o ccWipeAndFreeLocked(e, garbage)
              \o <<Ev("scope_exit", "decryptedUser", AllZero(du)),
                   Ev("scope_exit", "decryptedPass", AllZero(dp))>>,
            compared, cmpCount, oob,
            MemzeroOverrun(JcharBytes(userChars), userLen * 2)
              \/ MemzeroOverrun(JcharBytes(passChars), passLen * 2),
            "returned")

\* the conversion loops read past the end of an array
ccReadsPastEnd(u, p, userLen, passLen) ==
    userLen > Len(u.elems) \/ passLen > Len(p.elems)

checkCredentials(u, p, userLen, passLen, e, garbage, oobChar, crash) ==
    IF e.modeUser = "null" \/ e.modePass = "null"
    THEN ccArrayAccessFailed(u, p, e, garbage)
    ELSE IF ~MallocSucceeds(userLen, e.userBytesOk)
            \/ ~MallocSucceeds(passLen, e.passBytesOk)
    THEN ccAllocFailed(u, p, userLen, passLen, e, garbage)
    ELSE IF ccReadsPastEnd(u, p, userLen, passLen) /\ crash
    THEN \* the out-of-bounds read faults: the call never returns
         ccReturn(u, p, FALSE,
                  ccLockMemory(e) \o ccGetArrays(e) \o ccAllocBytes(TRUE, TRUE),
                  FALSE, 0, TRUE, FALSE, "crashed")
    ELSE
    LET userBytes == ccConvert(GetCharArrayElements(u, e.modeUser), userLen, oobChar)
        passBytes == ccConvert(GetCharArrayElements(p, e.modePass), passLen, oobChar)
        decryptedUser == ccDecrypt(ENC_USER)
        decryptedPass == ccDecrypt(ENC_PASS)
        compared == ccLengthsMatch(userLen, passLen)
        cmp == ccCompare(userBytes, passBytes, decryptedUser, decryptedPass,
                         userLen, passLen)
    IN  ccCleanup(u, p, userLen, passLen, e, garbage, userBytes, passBytes,
                  decryptedUser, decryptedPass,
                  compared /\ cmp.match,
                  compared,
                  IF compared THEN cmp.examined ELSE 0,
                  ccReadsPastEnd(u, p, userLen, passLen))

(***************************************************************************)
(* getFlagLength                                                           *)
(***************************************************************************)
getFlagLength == FLAG_LEN

(***************************************************************************)
(* decryptFlagIntoBuffer                                                   *)
(***************************************************************************)
\* the return of a void entry point on one array: the array and the events
bufReturn(b, t) == [jbuffer |-> b, trace |-> t]

\* the size test off by one: a destination one element short passes
dfBufferTooSmall_OffByOne(bufferSize) == bufferSize < FLAG_LEN - 1

\* if (bufferSize < FLAG_LEN)
dfBufferTooSmall(bufferSize) == bufferSize < FLAG_LEN

\* malloc(1024) and, when it succeeded, mlock
dfLockMemory(e) ==
    IF e.lockedOk
    THEN <<Ev("malloc", "lockedMem", FALSE)>>
         \o (IF e.mlockOk THEN <<Ev("mlock", "lockedMem", FALSE)>> ELSE <<>>)
    ELSE <<>>

\* tempDecrypt failure branch: if (lockedMem) { munlock; free; }
dfUnlockAndFree(e, garbage) ==
    IF e.lockedOk
    THEN <<Ev("munlock", "lockedMem", LockedFreshIsZero[garbage]),
           Ev("free", "lockedMem", LockedFreshIsZero[garbage])>>
    ELSE <<>>

\* success path: if (lockedMem) { secure_memzero; munlock; free; }
dfWipeUnlockAndFree(e, garbage) ==
    IF e.lockedOk
    THEN <<Ev("zero", "lockedMem", LockedWipedIsZero[garbage]),
           Ev("munlock", "lockedMem", LockedWipedIsZero[garbage]),
           Ev("free", "lockedMem", LockedWipedIsZero[garbage])>>
    ELSE <<>>

\* tempDecrypt[i] = ENC_FLAG[i] ^ FLAG_KEY, stored into char
dfPerformDecryption(charSigned) ==
    [i \in 1..FLAG_LEN |-> ToChar(Xor8(ENC_FLAG[i], FLAG_KEY), charSigned)]

\* the copy loop stopping one element early
dfCopyToJavaBuffer_OffByOne(buffer, tempDecrypt) ==
    [i \in 1..Len(buffer) |->
        IF i < FLAG_LEN THEN ToJchar(tempDecrypt[i]) ELSE buffer[i]]

\* for (i < FLAG_LEN) buffer[i] = (jchar) tempDecrypt[i]
dfCopyToJavaBuffer(buffer, tempDecrypt) ==
    [i \in 1..Len(buffer) |->
        IF i <= FLAG_LEN THEN ToJchar(tempDecrypt[i]) ELSE buffer[i]]

\* the release mode of the success path
dfSuccessReleaseMode == 0

decryptFlagIntoBuffer(b, e, garbage, charSigned) ==
    IF b.null THEN bufReturn(b, <<>>)
    ELSE IF e.mode = "null" THEN bufReturn(b, <<>>)
    ELSE
    LET buffer == GetCharArrayElements(b, e.mode)
        bufferSize == Len(b.elems)
        tGet == <<Ev("get", "buffer", FALSE)>>
        tRel == <<Ev("release", "buffer", FALSE)>>
    IN
    IF dfBufferTooSmall(bufferSize)
    THEN bufReturn(ReleaseCharArrayElements(b, buffer, JNI_ABORT, e.mode),
                   tGet \o tRel)
    ELSE IF ~e.tempOk
    THEN bufReturn(ReleaseCharArrayElements(b, buffer, JNI_ABORT, e.mode),
                   tGet \o dfLockMemory(e) \o dfUnlockAndFree(e, garbage)
                     \o tRel)
    ELSE
    LET tempDecrypt == dfPerformDecryption(charSigned)
        written == dfCopyToJavaBuffer(buffer, tempDecrypt)
        wipedTemp == secure_memzero(tempDecrypt, FLAG_LEN)
    IN  bufReturn(
            ReleaseCharArrayElements(b, written, dfSuccessReleaseMode, e.mode),
            tGet \o dfLockMemory(e)
              \o <<Ev("malloc", "tempDecrypt", FALSE),
                   Ev("zero", "tempDecrypt", AllZero(wipedTemp)),
                   Ev("free", "tempDecrypt", AllZero(wipedTemp))>>
              \o dfWipeUnlockAndFree(e, garbage)
              \o tRel)

(***************************************************************************)
(* wipeFlagBuffer                                                          *)
(***************************************************************************)
wipeFlagBuffer(b, e) ==
    IF b.null THEN bufReturn(b, <<>>)
    ELSE IF e.mode = "null" THEN bufReturn(b, <<>>)
    ELSE
    LET buffer == GetCharArrayElements(b, e.mode)
        length == Len(b.elems)
        wiped == ZeroJchars(buffer, length)
    IN  bufReturn(ReleaseCharArrayElements(b, wiped, JNI_ABORT, e.mode),
                  <<Ev("get", "buffer", FALSE),
                    Ev("zero", "buffer", AllZero(wiped)),
                    Ev("release", "buffer", AllZero(wiped))>>)

(***************************************************************************)
(* The caller's inputs and the runtime's choices.                          *)
(***************************************************************************)
\* jchar arrays for juser / jpass: the stored credential, continued with
\* '!' past its end and cut to n elements; at the stored length also with
\* the first or the last low byte changed, or the first high byte set
Candidate(n, variant) ==
    [i \in 1..n |->
        LET c == IF i <= Len(ENC_USER) THEN Xor8(ENC_USER[i], XOR_KEY) ELSE 33
        IN  IF variant = "low1" /\ i = 1 THEN c + 1
            ELSE IF variant = "lowN" /\ i = n THEN c + 1
            ELSE IF variant = "high1" /\ i = 1 THEN c + 256
            ELSE c]

ArrLens == {0} \cup ((Len(ENC_USER) - 1)..MaxArrLen)

CandidateArrays ==
    {Arr(Candidate(n, "exact")) : n \in ArrLens}
    \cup {Arr(Candidate(Len(ENC_USER), v)) : v \in {"low1", "lowN", "high1"}}

\* userLen / passLen arguments
LenArgs == {0 - 1, 0} \cup ((Len(ENC_USER) - 1)..MaxLenArg)

\* destination arrays for decryptFlagIntoBuffer / wipeFlagBuffer
BufLens == {0, FLAG_LEN - 1} \cup (FLAG_LEN..(FLAG_LEN + MaxExtra))

BufferInputs ==
    {NullArr}
    \cup {Arr([i \in 1..n |-> (base + i) % 65536]) :
            n \in BufLens, base \in {0, 65, 65530}}

GetModes == {"direct", "copy", "null"}

\* jchar values that may lie behind the end of an array
OobChars == {0, 110}

\* the runtime's choices during one checkCredentials call; a choice the call
\* never reaches is fixed, so that one run of the code is one record
ccRuntime(u, p, userLen, passLen) ==
    LET outcomes ==
            {e \in [lockedOk : BOOLEAN, mlockOk : BOOLEAN,
                    modeUser : GetModes, modePass : GetModes,
                    userBytesOk : BOOLEAN, passBytesOk : BOOLEAN,
                    garbage : {0}, oobChar : {0}, crash : {FALSE}] :
                LET reachedAlloc == e.modeUser # "null" /\ e.modePass # "null"
                IN  /\ e.mlockOk => e.lockedOk
                    /\ e.userBytesOk => reachedAlloc /\ userLen >= 0
                    /\ e.passBytesOk => reachedAlloc /\ passLen >= 0}
        \* the indeterminate bytes show only in a buffer freed unwiped
        garbageOf(e) ==
            IF e.userBytesOk # e.passBytesOk THEN Garbage ELSE {0}
        \* what lies behind an array shows only when the call reads there
        oobOf(e) ==
            e.userBytesOk /\ e.passBytesOk
            /\ ccReadsPastEnd(u, p, userLen, passLen)
    IN  UNION {
            {[e EXCEPT !.garbage = g, !.oobChar = c, !.crash = k] :
                g \in garbageOf(e),
                c \in (IF oobOf(e) THEN OobChars ELSE {0}),
                k \in (IF oobOf(e) THEN BOOLEAN ELSE {FALSE})} :
            e \in outcomes}

\* the runtime's choices during one decryptFlagIntoBuffer call
dfRuntime(b) ==
    {e \in [mode : GetModes, lockedOk : BOOLEAN, mlockOk : BOOLEAN,
            tempOk : BOOLEAN, garbage : Garbage, charSigned : BOOLEAN] :
        LET reachedAlloc ==
                ~b.null /\ e.mode # "null" /\ ~dfBufferTooSmall(Len(b.elems))
        IN  /\ b.null => e.mode = "null"
            /\ e.lockedOk => reachedAlloc
            /\ e.mlockOk => e.lockedOk
            /\ e.tempOk => reachedAlloc
            /\ (e.garbage # 0) => e.lockedOk /\ ~e.tempOk
            /\ e.charSigned => e.tempOk}

\* the runtime's choices during one wipeFlagBuffer call
wfRuntime(b) ==
    {e \in [mode : GetModes] : b.null => e.mode = "null"}

NoArgs ==
    [juser |-> NullArr, jpass |-> NullArr, userLen |-> 0, passLen |-> 0,
     jbuffer |-> NullArr]

NoEnv == [mode |-> "null"]

NoResult ==
    [match |-> FALSE, flagLen |-> 0, trace |-> <<>>, compared |-> FALSE,
     cmpCount |-> 0, oobRead |-> FALSE, oobWrite |-> FALSE,
     outcome |-> "none"]

\* the arrays a call on a destination buffer can be given: a fresh one, or
\* the one the previous call on a buffer left behind
CallerBuffers ==
    IF phase = "idle" THEN BufferInputs
    ELSE IF op \in {"decryptFlagIntoBuffer", "wipeFlagBuffer"} /\ ~jbuffer.null
    THEN {jbuffer}
    ELSE {}

(***************************************************************************)
(* The state machine.  A call is one step: r is its one outcome for the    *)
(* inputs and runtime choices drawn.                                        *)
(***************************************************************************)
Init ==
    /\ phase = "idle"
    /\ op = "none"
    /\ juser = NullArr
    /\ jpass = NullArr
    /\ jbuffer = NullArr
    /\ args = NoArgs
    /\ env = NoEnv
    /\ result = NoResult

CheckCredentials ==
    /\ phase = "idle"
    /\ \E u \in CandidateArrays, p \in CandidateArrays,
          userLen \in LenArgs, passLen \in LenArgs :
         \E e \in ccRuntime(u, p, userLen, passLen) :
            \E r \in {checkCredentials(u, p, userLen, passLen, e,
                                      e.garbage, e.oobChar, e.crash)} :
                /\ phase' = "returned"
                /\ op' = "checkCredentials"
                /\ juser' = r.juser
                /\ jpass' = r.jpass
                /\ jbuffer' = NullArr
                /\ args' = [NoArgs EXCEPT !.juser = u, !.jpass = p,
                                          !.userLen = userLen,
                                          !.passLen = passLen]
                /\ env' = e
                /\ result' = [NoResult EXCEPT
                                !.match = r.match, !.trace = r.trace,
                                !.compared = r.compared,
                                !.cmpCount = r.cmpCount,
                                !.oobRead = r.oobRead,
                                !.oobWrite = r.oobWrite,
                                !.outcome = r.outcome]

GetFlagLength ==
    /\ phase = "idle"
    /\ phase' = "returned"
    /\ op' = "getFlagLength"
    /\ juser' = NullArr
    /\ jpass' = NullArr
    /\ jbuffer' = NullArr
    /\ args' = NoArgs
    /\ env' = NoEnv
    /\ result' = [NoResult EXCEPT !.flagLen = getFlagLength,
                                  !.outcome = "returned"]

DecryptFlagIntoBuffer ==
    \E b \in CallerBuffers :
      \E e \in dfRuntime(b) :
        \E r \in {decryptFlagIntoBuffer(b, e, e.garbage, e.charSigned)} :
            /\ phase' = "returned"
            /\ op' = "decryptFlagIntoBuffer"
            /\ juser' = NullArr
            /\ jpass' = NullArr
            /\ jbuffer' = r.jbuffer
            /\ args' = [NoArgs EXCEPT !.jbuffer = b]
            /\ env' = e
            /\ result' = [NoResult EXCEPT !.trace = r.trace,
                                          !.outcome = "returned"]

WipeFlagBuffer ==
    \E b \in CallerBuffers :
      \E e \in wfRuntime(b) :
        \E r \in {wipeFlagBuffer(b, e)} :
            /\ phase' = "returned"
            /\ op' = "wipeFlagBuffer"
            /\ juser' = NullArr
            /\ jpass' = NullArr
            /\ jbuffer' = r.jbuffer
            /\ args' = [NoArgs EXCEPT !.jbuffer = b]
            /\ env' = e
            /\ result' = [NoResult EXCEPT !.trace = r.trace,
                                          !.outcome = "returned"]

\* the caller takes the result and drops the arrays of the call
CallerContinues ==
    /\ phase = "returned"
    /\ phase' = "idle"
    /\ op' = "none"
    /\ juser' = NullArr
    /\ jpass' = NullArr
    /\ jbuffer' = NullArr
    /\ args' = NoArgs
    /\ env' = NoEnv
    /\ result' = NoResult

Next ==
    \/ GetFlagLength
    \/ DecryptFlagIntoBuffer
    \/ WipeFlagBuffer
    \/ CallerContinues
    \/ CheckCredentials

Spec == Init /\ [][Next]_vars

(***************************************************************************)
(* Properties.                                                             *)
(***************************************************************************)
\* entry point o has run and returned to the caller
Returned(o) ==
    phase = "returned" /\ op = o /\ result.outcome = "returned"

\* positions of the trace where one of the events evs happens to object o
Positions(evs, o) ==
    {i \in DOMAIN result.trace :
        result.trace[i].ev \in evs /\ result.trace[i].obj = o}

\* C1: called with the real lengths and every allocation succeeding,
\* checkCredentials returns true exactly when juser and jpass equal the
\* decrypted stored credentials element for element, as 16-bit chars.
C1_MatchIffExactCredentials ==
    (/\ Returned("checkCredentials")
     /\ args.userLen = Len(args.juser.elems)
     /\ args.passLen = Len(args.jpass.elems)
     /\ env.lockedOk /\ env.userBytesOk /\ env.passBytesOk)
    => (result.match <=>
            /\ args.juser.elems = [i \in 1..Len(ENC_USER) |-> Xor8(ENC_USER[i], XOR_KEY)]
            /\ args.jpass.elems = [i \in 1..Len(ENC_PASS) |-> Xor8(ENC_PASS[i], XOR_KEY)])

\* C2: whenever decryptFlagIntoBuffer fails (destination shorter than
\* FLAG_LEN, or no temporary buffer, or no access to the array), the
\* caller's destination array is unchanged, with a direct pointer and with
\* a copy.
C2_FailedDecryptLeavesDestination ==
    (/\ Returned("decryptFlagIntoBuffer")
     /\ ~args.jbuffer.null
     /\ (Len(args.jbuffer.elems) < FLAG_LEN \/ ~env.tempOk))
    => jbuffer = args.jbuffer

\* C2 witness: the temporary buffer could not be allocated for a long
\* enough, non-empty destination that the runtime handed out directly.
C2_Witness ==
    /\ Returned("decryptFlagIntoBuffer")
    /\ Len(args.jbuffer.elems) > FLAG_LEN
    /\ env.mode = "direct" /\ env.lockedOk /\ ~env.tempOk
    /\ jbuffer = args.jbuffer

\* C3: a successful decryptFlagIntoBuffer on a destination of length
\* L >= getFlagLength() leaves the first getFlagLength() elements equal to
\* ENC_FLAG[i] ^ FLAG_KEY and the elements behind them as they were.
C3_SuccessFillsPrefixOnly ==
    (/\ Returned("decryptFlagIntoBuffer")
     /\ ~args.jbuffer.null
     /\ Len(args.jbuffer.elems) >= getFlagLength
     /\ env.tempOk)
    => /\ Len(jbuffer.elems) = Len(args.jbuffer.elems)
       /\ \A i \in 1..Len(jbuffer.elems) :
            jbuffer.elems[i] =
                IF i <= getFlagLength THEN Xor8(ENC_FLAG[i], FLAG_KEY)
                ELSE args.jbuffer.elems[i]

\* C3 witness: a success through a copy, on a destination longer than the
\* flag whose tail is not the plaintext.
C3_Witness ==
    /\ Returned("decryptFlagIntoBuffer")
    /\ env.tempOk /\ env.mode = "copy" /\ env.charSigned
    /\ Len(jbuffer.elems) = FLAG_LEN + MaxExtra
    /\ jbuffer.elems[1] = 70
    /\ jbuffer.elems[1] # args.jbuffer.elems[1]
    /\ jbuffer.elems[Len(jbuffer.elems)] = args.jbuffer.elems[Len(jbuffer.elems)]

\* C4: after wipeFlagBuffer returns for a valid non-null array, every
\* element of the caller's array is zero, with a direct pointer and with a
\* copy.
C4_WipeZeroesCallerArray ==
    (/\ Returned("wipeFlagBuffer")
     /\ ~args.jbuffer.null
     /\ env.mode \in {"direct", "copy"})
    => /\ Len(jbuffer.elems) = Len(args.jbuffer.elems)
       /\ AllZero(jbuffer.elems)

\* C5: when checkCredentials, decryptFlagIntoBuffer or wipeFlagBuffer
\* returns, every malloc'd region and every array pointer acquired during
\* the call has been released exactly once, after its acquisition, and
\* nothing else has been released.
C5_EveryResourceReleasedOnce ==
    (/\ phase = "returned"
     /\ result.outcome = "returned"
     /\ op \in {"checkCredentials", "decryptFlagIntoBuffer", "wipeFlagBuffer"})
    => \A i \in DOMAIN result.trace :
          result.trace[i].ev \in {"malloc", "get", "free", "release"} =>
            LET acq == Positions({"malloc", "get"}, result.trace[i].obj)
                rel == Positions({"free", "release"}, result.trace[i].obj)
            IN  /\ Cardinality(acq) = 1
                /\ Cardinality(rel) = 1
                /\ \A a \in acq, r \in rel : a < r

\* C5 witness: checkCredentials returned through the branch where
\* userBytes was allocated and passBytes was not, with the lock region and
\* both array pointers held.
C5_Witness ==
    /\ Returned("checkCredentials")
    /\ env.lockedOk /\ env.userBytesOk /\ ~env.passBytesOk
    /\ args.passLen >= 0
    /\ Cardinality(Positions({"malloc", "get"}, "userBytes")) = 1
    /\ Cardinality(Positions({"free", "release"}, "userBytes")) = 1
    /\ Cardinality(Positions({"free", "release"}, "passChars")) = 1

\* C6: every buffer the native code allocates for itself is all zero at the
\* moment it is freed or goes out of scope, on every exit path.
C6_NativeBuffersZeroedWhenFreed ==
    (phase = "returned" /\ result.outcome = "returned")
    => \A i \in DOMAIN result.trace :
          result.trace[i].ev \in {"free", "scope_exit"} =>
              result.trace[i].zeroed

\* C7: when the candidate's lengths equal the stored lengths,
\* checkCredentials examines every byte of the user and of the password
\* candidate, wherever the first mismatch is: the number of byte
\* comparisons is userLen + passLen for every candidate of these lengths.
C7_ComparesEveryByte ==
    (/\ Returned("checkCredentials")
     /\ result.compared
     /\ args.userLen = Len(args.juser.elems)
     /\ args.passLen = Len(args.jpass.elems))
    => result.cmpCount = args.userLen + args.passLen

\* C8: every region that was page-locked with mlock is unlocked with
\* munlock before it is freed, and where it is also zeroed the zeroing comes
\* before the munlock.
C8_UnlockedBeforeFree ==
    (phase = "returned" /\ result.outcome = "returned")
    => \A o \in {"locked_mem", "lockedMem"} :
          \A l \in Positions({"mlock"}, o), f \in Positions({"free"}, o) :
             /\ \E m \in Positions({"munlock"}, o) : l < m /\ m < f
             /\ \A z \in Positions({"zero"}, o), m \in Positions({"munlock"}, o) :
                    z < m

\* C9: for every userLen and passLen, checkCredentials returns false when a
\* length differs from the stored credential's length, and never reads or
\* writes outside the bounds of the caller's arrays or of its own buffers.
C9_NoOutOfBoundsAccess ==
    (phase = "returned" /\ op = "checkCredentials")
    => /\ ~result.oobRead
       /\ ~result.oobWrite
       /\ (args.userLen # Len(ENC_USER) \/ args.passLen # Len(ENC_PASS))
             => ~result.match

\* C10: checkCredentials does not change the caller-visible contents of
\* juser and jpass on any exit path, with a direct pointer and with a copy
\* (stated for length arguments within the arrays, where every access of
\* the call is defined).
C10_CallerArraysUnchanged ==
    (/\ Returned("checkCredentials")
     /\ args.userLen <= Len(args.juser.elems)
     /\ args.passLen <= Len(args.jpass.elems))
    => juser = args.juser /\ jpass = args.jpass

====
